---- MODULE Spec2Model ----
(***************************************************************************)
(* A model of zkbench: platform detection (platform_info.py), the commit   *)
(* lookup (utils.py), the report schema and its JSON serialization         *)
(* (schema.py) and the sample statistics (statistics.py).                  *)
(*                                                                         *)
(* Text is a sequence of one-character strings, so that strip, partition,  *)
(* split, slicing and the regular expressions are computed, not assumed.   *)
(* An optional value (Python's None) is the empty set, a present value x   *)
(* is {x}.                                                                 *)
(***************************************************************************)
EXTENDS Integers, Sequences, FiniteSets, TLC

VARIABLES
    op,         \* the entry point that was called
    system,     \* what platform.system() returns on this machine
    pc,         \* position of the call in the code
    inflight,   \* the child process subprocess.run is waiting for, or NoCall
    invoked,    \* the subprocess.run calls made so far, in order
    loc,        \* local values of the running frames
    status,     \* "running", then "returned" or "raised"
    entity,     \* the schema object under construction or constructed
    built,      \* what the Platform constructor gave, once called
    mapping,    \* what to_dict returned, once called
    text,       \* what to_json returned or raised, once called
    parsed,     \* what json.loads made of the text, once called
    values,     \* the samples given to calculate_statistics
    stat,       \* what calculate_statistics returned or raised, once called
    interval,   \* a calculate_confidence_interval call: arguments and outcome
    numpy,      \* the major version of the numpy that is installed
    arr,        \* the argument of compute_array_hash
    digest,     \* what compute_array_hash returned or raised, once called
    owner,      \* whose to_dict a caller uses: a result's or a report's
    subject,    \* the BenchmarkResult; its metadata field is a reference
    heap,       \* the dict objects references point to
    given,      \* the BenchmarkResult as it was constructed
    returned    \* the mappings to_dict handed out, as the caller holds them

platformVars == <<op, system, pc, inflight, invoked, loc, status>>

schemaVars == <<entity, built, mapping, text, parsed>>

statsVars == <<values, stat, interval>>

hashVars == <<numpy, arr, digest>>

aliasVars == <<owner, subject, heap, given, returned>>

vars == <<platformVars, schemaVars, statsVars, hashVars, aliasVars>>

----------------------------------------------------------------------------
(* Text helpers: str.strip, str.partition, str.split, str.startswith, `in` *)

None == {}

Some(x) == {x}

TheValue(o) == CHOOSE x \in o : TRUE

IsSpace(c) == c \in {" ", "\t", "\n"}

RECURSIVE LStrip(_)
LStrip(s) == IF s # <<>> /\ IsSpace(Head(s)) THEN LStrip(Tail(s)) ELSE s

RECURSIVE RStrip(_)
RStrip(s) ==
    IF s # <<>> /\ IsSpace(s[Len(s)]) THEN RStrip(SubSeq(s, 1, Len(s) - 1)) ELSE s

Strip(s) == RStrip(LStrip(s))

\* s.partition("\n")[0]: the text before the first newline, or all of s
BeforeNewline(s) ==
    IF \E i \in 1..Len(s) : s[i] = "\n"
    THEN LET i == CHOOSE i \in 1..Len(s) :
                      s[i] = "\n" /\ \A j \in 1..(i - 1) : s[j] # "\n"
         IN  SubSeq(s, 1, i - 1)
    ELSE s

\* s.split("\n"): the pieces between newlines, the newlines dropped
RECURSIVE SplitLines(_)
SplitLines(s) ==
    IF \E i \in 1..Len(s) : s[i] = "\n"
    THEN <<BeforeNewline(s)>>
         \o SplitLines(SubSeq(s, Len(BeforeNewline(s)) + 2, Len(s)))
    ELSE <<s>>

\* iterating a text file: the lines, each keeping its newline
RECURSIVE FileLines(_)
FileLines(s) ==
    IF s = <<>> THEN <<>>
    ELSE IF \E i \in 1..Len(s) : s[i] = "\n"
    THEN <<SubSeq(s, 1, Len(BeforeNewline(s)) + 1)>>
         \o FileLines(SubSeq(s, Len(BeforeNewline(s)) + 2, Len(s)))
    ELSE <<s>>

StartsWith(s, p) == Len(s) >= Len(p) /\ SubSeq(s, 1, Len(p)) = p

OccursAt(s, p, i) == i + Len(p) - 1 <= Len(s) /\ SubSeq(s, i, i + Len(p) - 1) = p

Contains(s, p) == \E i \in 1..Len(s) : OccursAt(s, p, i)

\* number of whitespace characters of s from position i on
RECURSIVE SpaceRun(_, _)
SpaceRun(s, i) == IF i <= Len(s) /\ IsSpace(s[i]) THEN 1 + SpaceRun(s, i + 1) ELSE 0

\* number of non-newline characters of s from position i on (the reach of .+)
RECURSIVE DotRun(_, _)
DotRun(s, i) == IF i <= Len(s) /\ s[i] # "\n" THEN 1 + DotRun(s, i + 1) ELSE 0

\* where group 1 of  lit\s*(.+)  starts when lit is matched at i: \s* is
\* greedy and gives characters back until .+ finds one character
GroupStarts(s, lit, i) ==
    {p \in (i + Len(lit))..(i + Len(lit) + SpaceRun(s, i + Len(lit))) :
        DotRun(s, p) >= 1}

\* re.search(lit + r"\s*(.+)", s): group 1 of the leftmost match, or None
RegexGroup(s, lit) ==
    LET hits == {i \in 1..Len(s) : OccursAt(s, lit, i) /\ GroupStarts(s, lit, i) # {}}
    IN  IF hits = {} THEN None
        ELSE LET i == CHOOSE i \in hits : \A j \in hits : i <= j
                 p == CHOOSE p \in GroupStarts(s, lit, i) :
                          \A q \in GroupStarts(s, lit, i) : q <= p
             IN  Some(SubSeq(s, p, p + DotRun(s, p) - 1))

----------------------------------------------------------------------------
(* Text constants of the code and of the collaborators' answers            *)

Unknown == <<"u", "n", "k", "n", "o", "w", "n">>

ModelName == <<"m", "o", "d", "e", "l", " ", "n", "a", "m", "e">>

Colon == <<":">>

CardSeries == <<"C", "a", "r", "d", " ", "S", "e", "r", "i", "e", "s">>

CardSeriesColon == <<"C", "a", "r", "d", " ", "S", "e", "r", "i", "e", "s", ":">>

ChipsetModel == <<"C", "h", "i", "p", "s", "e", "t", " ", "M", "o", "d", "e", "l", ":">>

Linux == <<"L", "i", "n", "u", "x">>

Darwin == <<"D", "a", "r", "w", "i", "n">>

Windows == <<"W", "i", "n", "d", "o", "w", "s">>

FreeBSD == <<"F", "r", "e", "e", "B", "S", "D">>

linux == <<"l", "i", "n", "u", "x">>

darwin == <<"d", "a", "r", "w", "i", "n">>

windows == <<"w", "i", "n", "d", "o", "w", "s">>

\* str.lower on the letters the system names use
LowerChar(c) ==
    CASE c = "L" -> "l" [] c = "D" -> "d" [] c = "W" -> "w"
      [] c = "F" -> "f" [] c = "B" -> "b" [] c = "S" -> "s" [] OTHER -> c

Lower(s) == [i \in 1..Len(s) |-> LowerChar(s[i])]

\* a full commit hash as `git rev-parse HEAD` prints it
FullSha == <<"a", "1", "b", "2", "c", "3", "d", "4", "e", "5", "f", "6", "0", "7", "1", "8", "2", "9", "3", "a", "4", "b", "5", "c", "6", "d", "7", "e", "8", "f", "9", "0", "1", "2", "3", "4", "5", "6", "7", "8">>

Systems == {Linux, Darwin, Windows, FreeBSD}

Machines == {<<"x", "8", "6", "_", "6", "4">>, <<"a", "r", "m", "6", "4">>}

CpuCounts == {None, Some(1), Some(4)}

Timestamps == {<<"2", "0", "2", "6", "-", "0", "1", "-", "0", "1", "T", "0", "0", ":", "0", "0", ":", "0", "0", "+", "0", "0", ":", "0", "0">>,
               <<"2", "0", "2", "6", "-", "0", "1", "-", "0", "1", "T", "0", "0", ":", "0", "0", ":", "0", "1", "+", "0", "0", ":", "0", "0">>}

\* what /proc/cpuinfo holds, or None when it cannot be opened
CpuInfoFiles ==
    {None,
     Some(<<"p", "r", "o", "c", "e", "s", "s", "o", "r", "\t", ":", " ", "0", "\n", "m", "o", "d", "e", "l", " ", "n", "a", "m", "e", "\t", ":", " ", "I", "n", "t", "e", "l", " ", "i", "7", "\n">>),
     Some(<<"p", "r", "o", "c", "e", "s", "s", "o", "r", "\t", ":", " ", "0", "\n">>),
     Some(<<"m", "o", "d", "e", "l", " ", "n", "a", "m", "e", "\t", ":", " ", "\n">>),
     Some(<<"m", "o", "d", "e", "l", " ", "n", "a", "m", "e", "\t", ":", "\n", "m", "o", "d", "e", "l", " ", "n", "a", "m", "e", "\t", ":", " ", " ", "A", "M", "D", " ", "\n">>)}

ProcessorIdentifiers == {None, Some(<<"I", "n", "t", "e", "l", "6", "4">>)}

\* how a child process behaves: the program is missing, is not executable,
\* never exits, or exits with a return code and its standard output
Missing == [kind |-> "missing", returncode |-> 0, stdout |-> <<>>]

NoExec == [kind |-> "noexec", returncode |-> 0, stdout |-> <<>>]

Hang == [kind |-> "hang", returncode |-> 0, stdout |-> <<>>]

Exit(rc, out) == [kind |-> "exit", returncode |-> rc, stdout |-> out]

Children(cmd) ==
    {Missing, NoExec, Hang, Exit(1, <<>>), Exit(0, <<>>)} \cup
    CASE cmd = "git" ->
           {Exit(128, <<>>), Exit(0, FullSha \o <<"\n">>)}
      [] cmd = "sysctl" ->
           {Exit(0, <<"A", "p", "p", "l", "e", " ", "M", "1", "\n">>), Exit(0, <<"\n">>)}
      [] cmd = "nvidia-smi" ->
           {Exit(0, <<"R", "T", "X", " ", "4", "0", "9", "0", "\n">>), Exit(0, <<"R", "T", "X", " ", "4", "0", "9", "0", "\n", "R", "T", "X", " ", "3", "0", "9", "0", "\n">>),
            Exit(0, <<" ", "\n", "R", "T", "X", "\n">>)}
      [] cmd = "rocm-smi" ->
           {Exit(0, <<"G", "P", "U", "[", "0", "]", "\t", ":", " ", "C", "a", "r", "d", " ", "S", "e", "r", "i", "e", "s", ":", "\t", "\t", "A", "M", "D", " ", "R", "X", "\n">>),
            Exit(0, <<"G", "P", "U", "[", "0", "]", "\t", ":", " ", "C", "a", "r", "d", " ", "S", "K", "U", ":", " ", "X", "\n">>),
            Exit(0, <<"C", "a", "r", "d", " ", "S", "e", "r", "i", "e", "s", ":", "\n">>)}
      [] cmd = "system_profiler" ->
           {Exit(0, <<"G", "r", "a", "p", "h", "i", "c", "s", ":", "\n", " ", " ", "C", "h", "i", "p", "s", "e", "t", " ", "M", "o", "d", "e", "l", ":", " ", "A", "p", "p", "l", "e", " ", "M", "2", "\n", " ", " ", "T", "y", "p", "e", ":", " ", "G", "P", "U", "\n">>),
            Exit(0, <<"G", "r", "a", "p", "h", "i", "c", "s", ":", "\n", " ", " ", "T", "y", "p", "e", ":", " ", "G", "P", "U", "\n">>)}

----------------------------------------------------------------------------
(* subprocess.run and the functions that call it                           *)

NoTimeout == None

\* the five call sites: the command, its timeout and whether check=True
CallSite(site) ==
    CASE site = "git" ->
           [cmd |-> "git", timeout |-> NoTimeout, check |-> TRUE]
      [] site = "sysctl" ->
           [cmd |-> "sysctl", timeout |-> NoTimeout, check |-> TRUE]
      [] site = "nvidia" ->
           [cmd |-> "nvidia-smi", timeout |-> Some(5), check |-> FALSE]
      [] site = "rocm" ->
           [cmd |-> "rocm-smi", timeout |-> Some(5), check |-> FALSE]
      [] site = "profiler" ->
           [cmd |-> "system_profiler", timeout |-> Some(5), check |-> FALSE]

Sites == {"git", "sysctl", "nvidia", "rocm", "profiler"}

\* whether subprocess.run ever comes back from this call: a child that never
\* exits is only abandoned when a timeout was given
Completes(call) == call.child.kind # "hang" \/ call.timeout # NoTimeout

\* what subprocess.run gives its caller: an exception or a completed process
subprocess_run(call) ==
    LET c == call.child
        raise(e) == [exc |-> e, returncode |-> 0, stdout |-> <<>>]
    IN  CASE c.kind = "missing" -> raise("FileNotFoundError")
          [] c.kind = "noexec" -> raise("PermissionError")
          [] c.kind = "hang" -> raise("TimeoutExpired")
          [] c.kind = "exit" ->
               IF call.check /\ c.returncode # 0
               THEN raise("CalledProcessError")
               ELSE [exc |-> "none", returncode |-> c.returncode, stdout |-> c.stdout]

Ret(v) == [exc |-> "none", val |-> v]

Exc(e) == [exc |-> e, val |-> None]

\* s[:n]
Prefix(s, n) == SubSeq(s, 1, IF Len(s) < n THEN Len(s) ELSE n)

get_git_commit_sha(r) ==
    IF r.exc \in {"CalledProcessError", "FileNotFoundError"} THEN Ret(Unknown)
    ELSE IF r.exc # "none" THEN Exc(r.exc)
    ELSE Ret(Prefix(Strip(r.stdout), 12))

\* the first line starting with "model name" that the pattern matches decides
RECURSIVE ScanCpuInfo(_)
ScanCpuInfo(lines) ==
    IF lines = <<>> THEN None
    ELSE IF StartsWith(Head(lines), ModelName)
            /\ RegexGroup(Head(lines), Colon) # None
    THEN Some(Strip(TheValue(RegexGroup(Head(lines), Colon))))
    ELSE ScanCpuInfo(Tail(lines))

\* file is None when open() raises OSError
get_cpu_vendor_linux(file) ==
    IF file = None THEN Ret(None) ELSE Ret(ScanCpuInfo(FileLines(TheValue(file))))

get_cpu_vendor_macos(r) ==
    IF r.exc \in {"CalledProcessError", "FileNotFoundError"} THEN Ret(None)
    ELSE IF r.exc # "none" THEN Exc(r.exc)
    ELSE Ret(Some(Strip(r.stdout)))

get_cpu_vendor_windows(environ) == Ret(environ)

\* _get_gpu_vendor_nvidia returning the whole output, not its first line
Mutant_nvidia_whole_output(r) ==
    IF r.exc \in {"FileNotFoundError", "TimeoutExpired"} THEN Ret(None)
    ELSE IF r.exc # "none" THEN Exc(r.exc)
    ELSE IF r.returncode # 0 THEN Ret(None)
    ELSE LET first_line == Strip(r.stdout)
         IN  Ret(IF first_line # <<>> THEN Some(first_line) ELSE None)

get_gpu_vendor_nvidia(r) ==
    IF r.exc \in {"FileNotFoundError", "TimeoutExpired"} THEN Ret(None)
    ELSE IF r.exc # "none" THEN Exc(r.exc)
    ELSE IF r.returncode # 0 THEN Ret(None)
    ELSE LET first_line == Strip(BeforeNewline(r.stdout))
         IN  Ret(IF first_line # <<>> THEN Some(first_line) ELSE None)

\* the first line holding `marker` that `lit\s*(.+)` matches decides
RECURSIVE ScanLines(_, _, _)
ScanLines(lines, marker, lit) ==
    IF lines = <<>> THEN None
    ELSE IF Contains(Head(lines), marker) /\ RegexGroup(Head(lines), lit) # None
    THEN Some(Strip(TheValue(RegexGroup(Head(lines), lit))))
    ELSE ScanLines(Tail(lines), marker, lit)

get_gpu_vendor_rocm(r) ==
    IF r.exc \in {"FileNotFoundError", "TimeoutExpired"} THEN Ret(None)
    ELSE IF r.exc # "none" THEN Exc(r.exc)
    ELSE IF r.returncode # 0 THEN Ret(None)
    ELSE Ret(ScanLines(SplitLines(r.stdout), CardSeries, CardSeriesColon))

get_gpu_vendor_macos(r) ==
    IF r.exc \in {"FileNotFoundError", "TimeoutExpired"} THEN Ret(None)
    ELSE IF r.exc # "none" THEN Exc(r.exc)
    ELSE IF r.returncode # 0 THEN Ret(None)
    ELSE Ret(ScanLines(SplitLines(r.stdout), ChipsetModel, Colon))

----------------------------------------------------------------------------
(* The schema's Platform and Metadata as the dataclasses declare them      *)

\* the fields of Platform, and those without a default
PlatformFields == {"os", "arch", "cpu_count", "cpu_vendor"}

PlatformRequired == {"os", "arch", "cpu_count"}

\* Platform(**kwargs): the generated __init__ rejects a keyword that names
\* no field and a missing required one with TypeError
NewPlatform(kwargs) ==
    IF DOMAIN kwargs \subseteq PlatformFields /\ PlatformRequired \subseteq DOMAIN kwargs
    THEN Ret([f \in PlatformFields |->
                 IF f \in DOMAIN kwargs THEN kwargs[f] ELSE None])
    ELSE Exc("TypeError")

\* MetricValue(value, unit, lower_value, upper_value): the generated __init__
\* stores the four fields; the class has no __post_init__
NewMetricValue(value, unit, lower_value, upper_value) ==
    Ret([value |-> value, unit |-> unit, lower_value |-> lower_value,
         upper_value |-> upper_value])

NewMetadata(implementation, version, commit_sha, timestamp, platform) ==
    [implementation |-> implementation, version |-> version,
     commit_sha |-> commit_sha, timestamp |-> timestamp, platform |-> platform]

----------------------------------------------------------------------------
(* The calls, step by step.  A frame returns to its caller; an exception   *)
(* that no frame handles ends the call.                                    *)

EntryPoints ==
    {"get_git_commit_sha", "get_cpu_vendor", "get_gpu_vendor",
     "get_platform_info", "Metadata.create"}

Implementations == {<<"z", "k">>, <<>>}

Versions == {<<"1", ".", "0">>}

NoLocals ==
    [implementation |-> <<>>, version |-> <<>>, commit_sha |-> <<>>,
     timestamp |-> <<>>, os |-> <<>>, arch |-> <<>>, cpu_count |-> 0,
     cpu_vendor |-> None, gpu_vendor |-> None, result |-> None, exc |-> "none",
     reported |-> None]

FirstStep(e) ==
    CASE e \in {"get_git_commit_sha", "Metadata.create"} -> "git"
      [] e = "get_cpu_vendor" -> "cpu"
      [] e = "get_gpu_vendor" -> "gpu"
      [] e = "get_platform_info" -> "info"

InitPlatform ==
    /\ op \in EntryPoints
    /\ system \in Systems
    /\ pc = FirstStep(op)
    /\ inflight = None
    /\ invoked = <<>>
    /\ \E i \in Implementations, v \in Versions :
          loc = IF op = "Metadata.create"
                THEN [NoLocals EXCEPT !.implementation = i, !.version = v]
                ELSE NoLocals
    /\ status = "running"

\* the call ends with an exception
Raise(e) ==
    /\ status' = "raised"
    /\ pc' = "done"
    /\ loc' = [loc EXCEPT !.exc = e]

\* the entry point returns v to its caller
Return(v) ==
    /\ status' = "returned"
    /\ pc' = "done"
    /\ loc' = [loc EXCEPT !.result = Some(v)]

\* get_git_commit_sha is done: its caller is the user or Metadata.create
GitDone(r) ==
    IF r.exc # "none" THEN Raise(r.exc)
    ELSE IF op = "get_git_commit_sha" THEN Return(r.val)
    ELSE /\ loc' = [loc EXCEPT !.commit_sha = r.val]
         /\ pc' = "timestamp"
         /\ UNCHANGED status

\* get_cpu_vendor is done: its caller is the user or get_platform_info
CpuDone(r) ==
    IF r.exc # "none" THEN Raise(r.exc)
    ELSE IF op = "get_cpu_vendor" THEN Return(r.val)
    ELSE /\ loc' = [loc EXCEPT !.cpu_vendor = r.val]
         /\ pc' = "gpu"
         /\ UNCHANGED status

\* get_gpu_vendor is done: its caller is the user or get_platform_info
GpuDone(r) ==
    IF r.exc # "none" THEN Raise(r.exc)
    ELSE IF op = "get_gpu_vendor" THEN Return(r.val)
    ELSE /\ loc' = [loc EXCEPT !.gpu_vendor = r.val]
         /\ pc' = "construct"
         /\ UNCHANGED status

\* subprocess.run starts the child and waits for it
Spawn ==
    /\ status = "running"
    /\ pc \in Sites
    /\ inflight = None
    /\ \E child \in Children(CallSite(pc).cmd) :
          inflight' = Some([cmd |-> CallSite(pc).cmd,
                            timeout |-> CallSite(pc).timeout,
                            check |-> CallSite(pc).check,
                            child |-> child])
    /\ invoked' = Append(invoked, TheValue(inflight'))
    /\ UNCHANGED <<op, system, pc, loc, status, schemaVars, statsVars, hashVars, aliasVars>>

\* subprocess.run comes back to the function that called it
Finished(site) ==
    /\ status = "running"
    /\ pc = site
    /\ inflight # None
    /\ Completes(TheValue(inflight))
    /\ inflight' = None
    /\ UNCHANGED <<op, system, invoked, schemaVars, statsVars, hashVars, aliasVars>>

GitFinish ==
    /\ Finished("git")
    /\ GitDone(get_git_commit_sha(subprocess_run(TheValue(inflight))))

Timestamp ==
    /\ status = "running"
    /\ pc = "timestamp"
    /\ \E t \in Timestamps : loc' = [loc EXCEPT !.timestamp = t]
    /\ pc' = "info"
    /\ UNCHANGED <<op, system, inflight, invoked, status, schemaVars, statsVars, hashVars, aliasVars>>

\* get_platform_info evaluates os, arch and cpu_count, then the two vendors
PlatformInfoStart ==
    /\ status = "running"
    /\ pc = "info"
    /\ \E m \in Machines, n \in CpuCounts :
          loc' = [loc EXCEPT !.os = Lower(system), !.arch = m, !.reported = n,
                             !.cpu_count = IF n = None THEN 1 ELSE TheValue(n)]
    /\ pc' = "cpu"
    /\ UNCHANGED <<op, system, inflight, invoked, status, schemaVars, statsVars, hashVars, aliasVars>>

get_cpu_vendor ==
    /\ status = "running"
    /\ pc = "cpu"
    /\ UNCHANGED <<op, system, inflight, invoked, schemaVars, statsVars, hashVars, aliasVars>>
    /\ CASE Lower(system) = linux ->
              \E file \in CpuInfoFiles : CpuDone(get_cpu_vendor_linux(file))
         [] Lower(system) = darwin ->
              pc' = "sysctl" /\ UNCHANGED <<loc, status>>
         [] Lower(system) = windows ->
              \E e \in ProcessorIdentifiers : CpuDone(get_cpu_vendor_windows(e))
         [] OTHER -> CpuDone(Ret(None))

SysctlFinish ==
    /\ Finished("sysctl")
    /\ CpuDone(get_cpu_vendor_macos(subprocess_run(TheValue(inflight))))

get_gpu_vendor ==
    /\ status = "running"
    /\ pc = "gpu"
    /\ UNCHANGED <<op, system, inflight, invoked, schemaVars, statsVars, hashVars, aliasVars>>
    /\ CASE system = Darwin -> pc' = "profiler" /\ UNCHANGED <<loc, status>>
         [] system = Linux -> pc' = "nvidia" /\ UNCHANGED <<loc, status>>
         [] OTHER -> GpuDone(Ret(None))

ProfilerFinish ==
    /\ Finished("profiler")
    /\ GpuDone(get_gpu_vendor_macos(subprocess_run(TheValue(inflight))))

\* a name from nvidia-smi is returned, otherwise rocm-smi is asked
NvidiaFinish ==
    /\ Finished("nvidia")
    /\ LET r == get_gpu_vendor_nvidia(subprocess_run(TheValue(inflight)))
       IN  IF r.exc = "none" /\ r.val = None
           THEN pc' = "rocm" /\ UNCHANGED <<loc, status>>
           ELSE GpuDone(r)

RocmFinish ==
    /\ Finished("rocm")
    /\ GpuDone(get_gpu_vendor_rocm(subprocess_run(TheValue(inflight))))

\* the keywords get_platform_info passes to Platform
PlatformKeywords(l) ==
    [os |-> l.os, arch |-> l.arch, cpu_count |-> l.cpu_count,
     cpu_vendor |-> l.cpu_vendor, gpu_vendor |-> l.gpu_vendor]

\* get_platform_info builds the Platform; Platform.current hands it on to
\* Metadata.create, which builds the Metadata
ConstructPlatform ==
    /\ status = "running"
    /\ pc = "construct"
    /\ UNCHANGED <<op, system, inflight, invoked, schemaVars, statsVars, hashVars, aliasVars>>
    /\ LET r == NewPlatform(PlatformKeywords(loc))
       IN  IF r.exc # "none" THEN Raise(r.exc)
           ELSE IF op = "get_platform_info" THEN Return(r.val)
           ELSE Return(NewMetadata(loc.implementation, loc.version,
                                   loc.commit_sha, loc.timestamp, r.val))

----------------------------------------------------------------------------
(* Python values as the schema builds them and as json handles them.  A    *)
(* float is finite (k tenths), an infinity or NaN.                         *)

PyNone == [t |-> "none"]

PyBool(b) == [t |-> "bool", b |-> b]

PyInt(i) == [t |-> "int", i |-> i]

Fin(k) == [c |-> "fin", k |-> k]

NaN == [c |-> "nan", k |-> 0]

Inf == [c |-> "inf", k |-> 1]

PyFloat(f) == [t |-> "float", f |-> f]

PyStr(s) == [t |-> "str", s |-> s]

PyList(items) == [t |-> "list", items |-> items]

PyTuple(items) == [t |-> "tuple", items |-> items]

PyDict(d) == [t |-> "dict", d |-> d]

\* a value json cannot serialize
PyBytes == [t |-> "bytes"]

EmptyDict == [k \in {} |-> PyNone]

\* the dict d after d[k] = v
SetItem(d, k, v) == [x \in DOMAIN d \cup {k} |-> IF x = k THEN v ELSE d[x]]

IsNumber(v) == v.t \in {"bool", "int"} \/ (v.t = "float" /\ v.f.c = "fin")

\* a finite number in tenths
Tenths(v) ==
    CASE v.t = "bool" -> IF v.b THEN 10 ELSE 0
      [] v.t = "int" -> 10 * v.i
      [] v.t = "float" -> v.f.k

\* Python's ==: numbers compare by value across bool, int and float, NaN
\* equals nothing, a list never equals a tuple, dicts compare key by key
RECURSIVE PyEq(_, _)
PyEq(a, b) ==
    IF IsNumber(a) /\ IsNumber(b) THEN Tenths(a) = Tenths(b)
    ELSE IF a.t # b.t THEN FALSE
    ELSE CASE a.t = "none" -> TRUE
           [] a.t = "float" -> a.f.c = b.f.c /\ a.f.c # "nan" /\ a.f.k = b.f.k
           [] a.t = "str" -> a.s = b.s
           [] a.t \in {"list", "tuple"} ->
                /\ Len(a.items) = Len(b.items)
                /\ \A i \in 1..Len(a.items) : PyEq(a.items[i], b.items[i])
           [] a.t = "dict" ->
                /\ DOMAIN a.d = DOMAIN b.d
                /\ \A k \in DOMAIN a.d : PyEq(a.d[k], b.d[k])
           [] OTHER -> FALSE

----------------------------------------------------------------------------
(* json.dumps and json.loads.  The text is held as the JSON document it    *)
(* spells: null, true, false, a number literal with or without a fraction, *)
(* NaN, Infinity, a string, an array, an object.                           *)

JsonOk(doc) == [exc |-> "none", doc |-> doc]

JsonError == [exc |-> "TypeError", doc |-> [j |-> "null"]]

RECURSIVE json_dumps(_)
json_dumps(v) ==
    CASE v.t = "none" -> JsonOk([j |-> "null"])
      [] v.t = "bool" -> JsonOk([j |-> IF v.b THEN "true" ELSE "false"])
      [] v.t = "int" -> JsonOk([j |-> "int", i |-> v.i])
      [] v.t = "float" ->
           JsonOk(CASE v.f.c = "fin" -> [j |-> "fraction", k |-> v.f.k]
                    [] v.f.c = "nan" -> [j |-> "NaN"]
                    [] v.f.c = "inf" -> [j |-> "Infinity", k |-> v.f.k])
      [] v.t = "str" -> JsonOk([j |-> "string", s |-> v.s])
      [] v.t \in {"list", "tuple"} ->
           IF \E i \in 1..Len(v.items) : json_dumps(v.items[i]).exc # "none"
           THEN JsonError
           ELSE JsonOk([j |-> "array",
                        items |-> [i \in 1..Len(v.items) |->
                                      json_dumps(v.items[i]).doc]])
      [] v.t = "dict" ->
           IF \E k \in DOMAIN v.d : json_dumps(v.d[k]).exc # "none"
           THEN JsonError
           ELSE JsonOk([j |-> "object",
                        members |-> [k \in DOMAIN v.d |-> json_dumps(v.d[k]).doc]])
      [] OTHER -> JsonError

RECURSIVE json_loads(_)
json_loads(doc) ==
    CASE doc.j = "null" -> PyNone
      [] doc.j = "true" -> PyBool(TRUE)
      [] doc.j = "false" -> PyBool(FALSE)
      [] doc.j = "int" -> PyInt(doc.i)
      [] doc.j = "fraction" -> PyFloat(Fin(doc.k))
      [] doc.j = "NaN" -> PyFloat(NaN)
      [] doc.j = "Infinity" -> PyFloat([c |-> "inf", k |-> doc.k])
      [] doc.j = "string" -> PyStr(doc.s)
      [] doc.j = "array" ->
           PyList([i \in 1..Len(doc.items) |-> json_loads(doc.items[i])])
      [] doc.j = "object" ->
           PyDict([k \in DOMAIN doc.members |-> json_loads(doc.members[k])])

----------------------------------------------------------------------------
(* The to_dict methods of the schema                                       *)

\* to_dict that emits an absent bound as null instead of omitting it
Mutant_MetricValue_to_dict_with_nulls(self) ==
    PyDict(SetItem(SetItem(SetItem(SetItem(EmptyDict,
        "value", PyFloat(self.value)),
        "unit", PyStr(self.unit)),
        "lower_value", IF self.lower_value # None
                       THEN PyFloat(TheValue(self.lower_value)) ELSE PyNone),
        "upper_value", IF self.upper_value # None
                       THEN PyFloat(TheValue(self.upper_value)) ELSE PyNone))

MetricValue_to_dict(self) ==
    LET r0 == SetItem(SetItem(EmptyDict, "value", PyFloat(self.value)),
                      "unit", PyStr(self.unit))
        r1 == IF self.lower_value # None
              THEN SetItem(r0, "lower_value", PyFloat(TheValue(self.lower_value)))
              ELSE r0
        r2 == IF self.upper_value # None
              THEN SetItem(r1, "upper_value", PyFloat(TheValue(self.upper_value)))
              ELSE r1
    IN  PyDict(r2)

TestVectors_to_dict(self) ==
    PyDict(SetItem(SetItem(SetItem(EmptyDict,
        "input_hash", PyStr(self.input_hash)),
        "output_hash", PyStr(self.output_hash)),
        "verified", PyBool(self.verified)))

BenchmarkResult_to_dict(self) ==
    LET r0 == EmptyDict
        r1 == IF self.latency # None
              THEN SetItem(r0, "latency", MetricValue_to_dict(TheValue(self.latency)))
              ELSE r0
        r2 == IF self.memory # None
              THEN SetItem(r1, "memory", MetricValue_to_dict(TheValue(self.memory)))
              ELSE r1
        r3 == IF self.throughput # None
              THEN SetItem(r2, "throughput",
                           MetricValue_to_dict(TheValue(self.throughput)))
              ELSE r2
        r4 == IF self.iterations > 0
              THEN SetItem(r3, "iterations", PyInt(self.iterations))
              ELSE r3
        r5 == IF self.test_vectors # None
              THEN SetItem(r4, "test_vectors",
                           TestVectors_to_dict(TheValue(self.test_vectors)))
              ELSE r4
        r6 == IF DOMAIN self.metadata # {}
              THEN SetItem(r5, "metadata", PyDict(self.metadata))
              ELSE r5
    IN  PyDict(r6)

Platform_to_dict(self) ==
    LET r0 == SetItem(SetItem(SetItem(EmptyDict,
                  "os", PyStr(self.os)),
                  "arch", PyStr(self.arch)),
                  "cpu_count", PyInt(self.cpu_count))
    IN  PyDict(IF self.cpu_vendor # None
               THEN SetItem(r0, "cpu_vendor", PyStr(TheValue(self.cpu_vendor)))
               ELSE r0)

Metadata_to_dict(self) ==
    PyDict(SetItem(SetItem(SetItem(SetItem(SetItem(EmptyDict,
        "implementation", PyStr(self.implementation)),
        "version", PyStr(self.version)),
        "commit_sha", PyStr(self.commit_sha)),
        "timestamp", PyStr(self.timestamp)),
        "platform", Platform_to_dict(self.platform)))

BenchmarkReport_to_dict(self) ==
    PyDict(SetItem(SetItem(EmptyDict,
        "metadata", Metadata_to_dict(self.metadata)),
        "benchmarks", PyDict([name \in DOMAIN self.benchmarks |->
                                 BenchmarkResult_to_dict(self.benchmarks[name])])))

\* to_json that serializes the metadata and forgets the benchmarks
Mutant_to_json_without_benchmarks(self) ==
    json_dumps(PyDict(SetItem(EmptyDict, "metadata", Metadata_to_dict(self.metadata))))

\* to_json: json.dumps of the canonical mapping; indent only lays the text out
BenchmarkReport_to_json(self) == json_dumps(BenchmarkReport_to_dict(self))

----------------------------------------------------------------------------
(* Schema objects a caller can construct                                   *)

Units == {<<"m", "s">>}

MetricValues ==
    [value : {Fin(15), NaN}, unit : Units,
     lower_value : {None, Some(Fin(10))}, upper_value : {None, Some(Fin(20))}]

PlainMetric ==
    [value |-> Fin(15), unit |-> <<"m", "s">>, lower_value |-> None,
     upper_value |-> None]

SomeTestVectors ==
    [input_hash |-> <<"a", "b">>, output_hash |-> <<"c", "d">>, verified |-> TRUE]

\* free-form metadata mappings with string keys
MetadataMaps ==
    {EmptyDict,
     SetItem(EmptyDict, "custom", PyStr(<<"v">>)),
     SetItem(EmptyDict, "note", PyNone),
     SetItem(SetItem(EmptyDict, "warm", PyBool(TRUE)), "runs", PyInt(3)),
     SetItem(EmptyDict, "sizes", PyList(<<PyInt(1), PyFloat(Fin(25))>>)),
     SetItem(EmptyDict, "env", PyDict(SetItem(EmptyDict, "k", PyFloat(Inf)))),
     SetItem(EmptyDict, "shape", PyTuple(<<PyInt(2), PyInt(3)>>)),
     SetItem(EmptyDict, "raw", PyBytes)}

Iterations == {-1, 0, 100}

BenchmarkResults ==
    [latency : {None} \cup {Some(m) : m \in MetricValues},
     memory : {None, Some(PlainMetric)},
     throughput : {None, Some(PlainMetric)},
     iterations : Iterations,
     test_vectors : {None, Some(SomeTestVectors)},
     metadata : MetadataMaps]

\* BenchmarkResult()
DefaultResult ==
    [latency |-> None, memory |-> None, throughput |-> None, iterations |-> 0,
     test_vectors |-> None, metadata |-> EmptyDict]

SomeMetadata ==
    NewMetadata(<<"z", "k">>, <<"1", ".", "0">>, Unknown,
                CHOOSE t \in Timestamps : TRUE,
                NewPlatform([os |-> linux, arch |-> <<"a", "r", "m", "6", "4">>,
                             cpu_count |-> 8]).val)

\* reports with no, one or two benchmarks
Reports ==
    {[metadata |-> SomeMetadata, benchmarks |-> EmptyDict]}
    \cup {[metadata |-> SomeMetadata, benchmarks |-> SetItem(EmptyDict, "a", r)] :
             r \in BenchmarkResults}
    \cup {[metadata |-> SomeMetadata,
           benchmarks |-> SetItem(SetItem(EmptyDict, "a", r), "b", DefaultResult)] :
             r \in BenchmarkResults}

\* keyword arguments a caller may pass to Platform
PlatformCalls ==
    {[k \in {"os", "arch", "cpu_count"} \cup cv \cup gv |->
         CASE k = "os" -> o
           [] k = "arch" -> <<"x", "8", "6">>
           [] k = "cpu_count" -> n
           [] k = "cpu_vendor" -> c
           [] k = "gpu_vendor" -> g] :
       o \in {linux, darwin}, n \in {1, 8},
       cv \in {{}, {"cpu_vendor"}}, gv \in {{}, {"gpu_vendor"}},
       c \in {None, Some(<<"I", "n", "t", "e", "l">>)},
       g \in {None, Some(<<"N", "V", "I", "D", "I", "A">>)}}

\* arguments a caller may pass to MetricValue
MetricCalls ==
    [value : {Fin(5), Fin(15)}, unit : Units,
     lower_value : {None, Some(Fin(10))},
     upper_value : {None, Some(Fin(8)), Some(Fin(20))}]

\* values a caller may assign to a field of a MetricValue later
Assignable == {Fin(5), Fin(15), Fin(30)}

----------------------------------------------------------------------------
(* Building and serializing schema objects                                 *)

InitSchema ==
    /\ \/ entity \in {[kind |-> "report", report |-> r] : r \in Reports}
       \/ entity \in {[kind |-> "platform", kwargs |-> k] : k \in PlatformCalls}
       \/ entity \in {[kind |-> "metric", args |-> a] : a \in MetricCalls}
    /\ built = None
    /\ mapping = None
    /\ text = None
    /\ parsed = None

\* Platform(**kwargs)
PlatformNew ==
    /\ entity.kind = "platform"
    /\ built = None
    /\ built' = Some(NewPlatform(entity.kwargs))
    /\ UNCHANGED <<entity, mapping, text, parsed, platformVars, statsVars, hashVars, aliasVars>>

\* MetricValue(**args)
MetricValueNew ==
    /\ entity.kind = "metric"
    /\ built = None
    /\ built' = Some(NewMetricValue(entity.args.value, entity.args.unit,
                                    entity.args.lower_value, entity.args.upper_value))
    /\ UNCHANGED <<entity, mapping, text, parsed, platformVars, statsVars, hashVars, aliasVars>>

\* metric.value = v, metric.lower_value = v or metric.upper_value = v: the
\* dataclass is not frozen, the assignment goes through
MetricSetAttr ==
    /\ entity.kind = "metric"
    /\ built # None
    /\ \E v \in Assignable :
          \/ built' = Some([TheValue(built) EXCEPT !.val.value = v])
          \/ built' = Some([TheValue(built) EXCEPT !.val.lower_value = Some(v)])
          \/ built' = Some([TheValue(built) EXCEPT !.val.upper_value = Some(v)])
    /\ UNCHANGED <<entity, mapping, text, parsed, platformVars, statsVars, hashVars, aliasVars>>

\* metric.to_dict()
MetricToDict ==
    /\ entity.kind = "metric"
    /\ built # None
    /\ mapping' = Some(MetricValue_to_dict(TheValue(built).val))
    /\ UNCHANGED <<entity, built, text, parsed, platformVars, statsVars, hashVars, aliasVars>>

\* platform.to_dict()
PlatformToDict ==
    /\ entity.kind = "platform"
    /\ built # None
    /\ TheValue(built).exc = "none"
    /\ mapping = None
    /\ mapping' = Some(Platform_to_dict(TheValue(built).val))
    /\ UNCHANGED <<entity, built, text, parsed, platformVars, statsVars, hashVars, aliasVars>>

\* report.to_dict()
ReportToDict ==
    /\ entity.kind = "report"
    /\ mapping = None
    /\ mapping' = Some(BenchmarkReport_to_dict(entity.report))
    /\ UNCHANGED <<entity, built, text, parsed, platformVars, statsVars, hashVars, aliasVars>>

\* report.to_json()
ReportToJson ==
    /\ entity.kind = "report"
    /\ text = None
    /\ text' = Some(BenchmarkReport_to_json(entity.report))
    /\ UNCHANGED <<entity, built, mapping, parsed, platformVars, statsVars, hashVars, aliasVars>>

\* json.loads(json_str)
ParseJson ==
    /\ entity.kind = "report"
    /\ text # None
    /\ TheValue(text).exc = "none"
    /\ parsed = None
    /\ parsed' = Some(json_loads(TheValue(text).doc))
    /\ UNCHANGED <<entity, built, mapping, text, platformVars, statsVars, hashVars, aliasVars>>

----------------------------------------------------------------------------
(* Floating point.  A Python float is a binary floating-point number:      *)
(* FloatPrecision significant bits, the smallest positive number           *)
(* 2^-FloatMinExp, exponents up to FloatMaxExp above it, every operation   *)
(* rounded to the nearest number, ties to the even significand, overflow   *)
(* to infinity.  A finite float is held as its count k of smallest         *)
(* positive numbers.  The format is the double's, scaled down.             *)

FloatPrecision == 3

FloatMinExp == 2

FloatMaxExp == 4

RECURSIVE Pow2(_)
Pow2(e) == IF e = 0 THEN 1 ELSE 2 * Pow2(e - 1)

\* how many smallest positive numbers make 1.0
One == Pow2(FloatMinExp)

Abs(x) == IF x < 0 THEN -x ELSE x

MaxFinite == (Pow2(FloatPrecision) - 1) * Pow2(FloatMaxExp)

Zero == Fin(0)

NegInf == [c |-> "inf", k |-> -1]

\* the float nearest to num/den, for num >= 0 and den > 0: the exponent j
\* that leaves FloatPrecision bits, the significand m cut off there, and
\* one more when the rest is over half, or is half and m is odd
RoundNonNeg(num, den) ==
    IF 2 * num >= den * (2 * MaxFinite + Pow2(FloatMaxExp)) THEN Inf
    ELSE LET j == CHOOSE j \in 0..FloatMaxExp :
                      /\ num < den * Pow2(FloatPrecision + j)
                      /\ \A i \in 0..(j - 1) : num >= den * Pow2(FloatPrecision + i)
             m == num \div (den * Pow2(j))
             rest == num % (den * Pow2(j))
             up == 2 * rest > den * Pow2(j) \/ (2 * rest = den * Pow2(j) /\ m % 2 = 1)
         IN  Fin((IF up THEN m + 1 ELSE m) * Pow2(j))

RoundRational(num, den) ==
    IF num >= 0 THEN RoundNonNeg(num, den)
    ELSE LET r == RoundNonNeg(-num, den)
         IN  IF r.c = "inf" THEN NegInf ELSE Fin(-r.k)

\* a + b
FAdd(a, b) ==
    CASE a.c = "nan" \/ b.c = "nan" -> NaN
      [] a.c = "inf" /\ b.c = "inf" -> IF a.k = b.k THEN a ELSE NaN
      [] a.c = "inf" -> a
      [] b.c = "inf" -> b
      [] OTHER -> RoundRational(a.k + b.k, 1)

\* a - b
FSub(a, b) == FAdd(a, IF b.c = "nan" THEN b ELSE [b EXCEPT !.k = -b.k])

\* a / n for a positive int n
FDivInt(a, n) == IF a.c = "fin" THEN RoundRational(a.k, n) ELSE a

Overflow == [c |-> "OverflowError", k |-> 0]

\* a ** 2: float.__pow__ raises OverflowError when a finite a squares out of
\* range
FSquare(a) ==
    CASE a.c = "nan" -> NaN
      [] a.c = "inf" -> Inf
      [] OTHER -> LET r == RoundNonNeg(a.k * a.k, One)
                  IN  IF r.c = "inf" THEN Overflow ELSE r

\* math.sqrt(a) for a >= 0: the float nearest to the square root, found as
\* RoundNonNeg finds it, by comparing squares
FSqrt(a) ==
    IF a.c # "fin" THEN a
    ELSE LET q == a.k * One
             j == CHOOSE j \in 0..FloatMaxExp :
                      /\ q < Pow2(2 * (FloatPrecision + j))
                      /\ \A i \in 0..(j - 1) : q >= Pow2(2 * (FloatPrecision + i))
             m == CHOOSE m \in 0..(Pow2(FloatPrecision) - 1) :
                      /\ (m * Pow2(j)) * (m * Pow2(j)) <= q
                      /\ ((m + 1) * Pow2(j)) * ((m + 1) * Pow2(j)) > q
             half == (2 * m + 1) * Pow2(j)
             up == 4 * q > half * half \/ (4 * q = half * half /\ m % 2 = 1)
         IN  Fin((IF up THEN m + 1 ELSE m) * Pow2(j))

\* sum(xs): 0 + xs[1] + xs[2] + ..., left to right
RECURSIVE FSumFrom(_, _)
FSumFrom(acc, xs) == IF xs = <<>> THEN acc ELSE FSumFrom(FAdd(acc, Head(xs)), Tail(xs))

FSum(xs) == FSumFrom(Zero, xs)

----------------------------------------------------------------------------
(* calculate_statistics                                                    *)

StatReturned(mean, stdev) ==
    [state |-> "returned", mean |-> mean, stdev |-> stdev, exc |-> "none"]

StatRaised(e) == [state |-> "raised", mean |-> Zero, stdev |-> Zero, exc |-> e]

\* calculate_statistics dividing the squared deviations by n, not n - 1
Mutant_statistics_population_variance(vals) ==
    IF vals = <<>> THEN StatRaised("ValueError")
    ELSE LET n == Len(vals)
             mean == FDivInt(FSum(vals), n)
         IN  IF n < 2 THEN StatReturned(mean, Zero)
             ELSE LET squares == [i \in 1..n |-> FSquare(FSub(vals[i], mean))]
                  IN  IF \E i \in 1..n : squares[i] = Overflow
                      THEN StatRaised("OverflowError")
                      ELSE StatReturned(mean, FSqrt(FDivInt(FSum(squares), n)))

\* calculate_statistics squaring the values, not their deviations
Mutant_statistics_raw_squares(vals) ==
    IF vals = <<>> THEN StatRaised("ValueError")
    ELSE LET n == Len(vals)
             mean == FDivInt(FSum(vals), n)
         IN  IF n < 2 THEN StatReturned(mean, Zero)
             ELSE LET squares == [i \in 1..n |-> FSquare(vals[i])]
                  IN  IF \E i \in 1..n : squares[i] = Overflow
                      THEN StatRaised("OverflowError")
                      ELSE StatReturned(mean, FSqrt(FDivInt(FSum(squares), n - 1)))

\* calculate_statistics refusing a single sample as well as none
Mutant_statistics_rejects_single(vals) ==
    IF Len(vals) < 2 THEN StatRaised("ValueError")
    ELSE LET n == Len(vals)
             mean == FDivInt(FSum(vals), n)
             squares == [i \in 1..n |-> FSquare(FSub(vals[i], mean))]
         IN  IF \E i \in 1..n : squares[i] = Overflow
             THEN StatRaised("OverflowError")
             ELSE StatReturned(mean, FSqrt(FDivInt(FSum(squares), n - 1)))

calculate_statistics(vals) ==
    IF vals = <<>> THEN StatRaised("ValueError")
    ELSE LET n == Len(vals)
             mean == FDivInt(FSum(vals), n)
         IN  IF n < 2 THEN StatReturned(mean, Zero)
             ELSE LET squares == [i \in 1..n |-> FSquare(FSub(vals[i], mean))]
                  IN  IF \E i \in 1..n : squares[i] = Overflow
                      THEN StatRaised("OverflowError")
                      ELSE StatReturned(mean, FSqrt(FDivInt(FSum(squares), n - 1)))

\* the samples a caller may pass: finite floats, up to MaxLen of them
MaxLen == 3

Samples == {Fin(k) : k \in {-3, 0, 1, 2, 3, 5, 7, MaxFinite}}

RECURSIVE SeqsUpTo(_, _)
SeqsUpTo(S, n) ==
    IF n = 0 THEN {<<>>}
    ELSE SeqsUpTo(S, n - 1)
         \cup {Append(q, x) : q \in {p \in SeqsUpTo(S, n - 1) : Len(p) = n - 1}, x \in S}

NotCalled == [state |-> "called", mean |-> Zero, stdev |-> Zero, exc |-> "none"]

StatIdle == [state |-> "idle", mean |-> Zero, stdev |-> Zero, exc |-> "none"]

CalculateStatistics ==
    /\ stat.state = "called"
    /\ stat' = calculate_statistics(values)
    /\ UNCHANGED <<values, interval, platformVars, schemaVars, hashVars, aliasVars>>

----------------------------------------------------------------------------
(* calculate_confidence_interval                                           *)

\* float(n) for an int n: the nearest float, OverflowError ("int too large
\* to convert to float") past the largest
FromInt(n) ==
    LET r == RoundRational(n * One, 1)
    IN  IF r.c = "inf" THEN Overflow ELSE r

ZeroDivision == [c |-> "ZeroDivisionError", k |-> 0]

Sign(a) == IF a.k < 0 THEN -1 ELSE 1

\* a / b
FDiv(a, b) ==
    CASE b.c = "fin" /\ b.k = 0 -> ZeroDivision
      [] a.c = "nan" \/ b.c = "nan" -> NaN
      [] a.c = "inf" /\ b.c = "inf" -> NaN
      [] a.c = "inf" -> [c |-> "inf", k |-> Sign(a) * Sign(b)]
      [] b.c = "inf" -> Zero
      [] OTHER -> RoundRational(a.k * One * Sign(b), Abs(b.k))

\* a * b
FMul(a, b) ==
    CASE a.c = "nan" \/ b.c = "nan" -> NaN
      [] a.c = "inf" /\ b.c = "fin" /\ b.k = 0 -> NaN
      [] b.c = "inf" /\ a.c = "fin" /\ a.k = 0 -> NaN
      [] a.c = "inf" \/ b.c = "inf" -> [c |-> "inf", k |-> Sign(a) * Sign(b)]
      [] OTHER -> RoundRational(a.k * b.k, One)

\* the float a decimal literal num/den denotes
Literal(num, den) == RoundRational(num * One, den)

\* A confidence level is only ever compared with the literals 0.95 and
\* 0.99, and a double tells 0.90, 0.95 and 0.99 apart: it is held as its
\* decimal in thousandths.
DefaultConfidence == Some(950)

IntervalReturned(args, lower, upper) ==
    [args EXCEPT !.state = "returned", !.lower = lower, !.upper = upper]

IntervalRaised(args, e) == [args EXCEPT !.state = "raised", !.exc = e]

\* calculate_confidence_interval checking n < 0, not n <= 0
Mutant_interval_accepts_zero(args) ==
    IF args.n < 0 THEN IntervalRaised(args, "ValueError")
    ELSE LET confidence == IF args.confidence = None THEN DefaultConfidence
                           ELSE args.confidence
             z == IF confidence = Some(950) THEN Literal(196, 100)
                  ELSE IF confidence = Some(990) THEN Literal(2576, 1000)
                  ELSE Literal(196, 100)
             n == FromInt(args.n)
         IN  IF n = Overflow THEN IntervalRaised(args, "OverflowError")
             ELSE LET se == FDiv(args.stdev, FSqrt(n))
                  IN  IF se = ZeroDivision
                      THEN IntervalRaised(args, "ZeroDivisionError")
                      ELSE LET margin == FMul(z, se)
                           IN  IntervalReturned(args, FSub(args.mean, margin),
                                                FAdd(args.mean, margin))

\* calculate_confidence_interval falling back to the z-score of 0.99
Mutant_interval_falls_back_to_99(args) ==
    IF args.n <= 0 THEN IntervalRaised(args, "ValueError")
    ELSE LET confidence == IF args.confidence = None THEN DefaultConfidence
                           ELSE args.confidence
             z == IF confidence = Some(950) THEN Literal(196, 100)
                  ELSE IF confidence = Some(990) THEN Literal(2576, 1000)
                  ELSE Literal(2576, 1000)
             n == FromInt(args.n)
         IN  IF n = Overflow THEN IntervalRaised(args, "OverflowError")
             ELSE LET se == FDiv(args.stdev, FSqrt(n))
                  IN  IF se = ZeroDivision
                      THEN IntervalRaised(args, "ZeroDivisionError")
                      ELSE LET margin == FMul(z, se)
                           IN  IntervalReturned(args, FSub(args.mean, margin),
                                                FAdd(args.mean, margin))

\* calculate_confidence_interval adding z to the standard error
Mutant_interval_adds_z(args) ==
    IF args.n <= 0 THEN IntervalRaised(args, "ValueError")
    ELSE LET confidence == IF args.confidence = None THEN DefaultConfidence
                           ELSE args.confidence
             z == IF confidence = Some(950) THEN Literal(196, 100)
                  ELSE IF confidence = Some(990) THEN Literal(2576, 1000)
                  ELSE Literal(196, 100)
             n == FromInt(args.n)
         IN  IF n = Overflow THEN IntervalRaised(args, "OverflowError")
             ELSE LET se == FDiv(args.stdev, FSqrt(n))
                  IN  IF se = ZeroDivision
                      THEN IntervalRaised(args, "ZeroDivisionError")
                      ELSE LET margin == FAdd(z, se)
                           IN  IntervalReturned(args, FSub(args.mean, margin),
                                                FAdd(args.mean, margin))

\* calculate_confidence_interval returning (mean + margin, mean - margin)
Mutant_interval_swaps_bounds(args) ==
    IF args.n <= 0 THEN IntervalRaised(args, "ValueError")
    ELSE LET confidence == IF args.confidence = None THEN DefaultConfidence
                           ELSE args.confidence
             z == IF confidence = Some(950) THEN Literal(196, 100)
                  ELSE IF confidence = Some(990) THEN Literal(2576, 1000)
                  ELSE Literal(196, 100)
             n == FromInt(args.n)
         IN  IF n = Overflow THEN IntervalRaised(args, "OverflowError")
             ELSE LET se == FDiv(args.stdev, FSqrt(n))
                  IN  IF se = ZeroDivision
                      THEN IntervalRaised(args, "ZeroDivisionError")
                      ELSE LET margin == FMul(z, se)
                           IN  IntervalReturned(args, FAdd(args.mean, margin),
                                                FSub(args.mean, margin))

calculate_confidence_interval(args) ==
    IF args.n <= 0 THEN IntervalRaised(args, "ValueError")
    ELSE LET confidence == IF args.confidence = None THEN DefaultConfidence
                           ELSE args.confidence
             z == IF confidence = Some(950) THEN Literal(196, 100)
                  ELSE IF confidence = Some(990) THEN Literal(2576, 1000)
                  ELSE Literal(196, 100)
             n == FromInt(args.n)
         IN  IF n = Overflow THEN IntervalRaised(args, "OverflowError")
             ELSE LET se == FDiv(args.stdev, FSqrt(n))
                  IN  IF se = ZeroDivision
                      THEN IntervalRaised(args, "ZeroDivisionError")
                      ELSE LET margin == FMul(z, se)
                           IN  IntervalReturned(args, FSub(args.mean, margin),
                                                FAdd(args.mean, margin))

\* the arguments a caller may pass
MaxN == 4

\* an int past the largest float
HugeN == MaxFinite

Means == {Fin(-3), Zero, Fin(5), Fin(MaxFinite), Inf, NaN}

Stdevs == {Zero, Fin(1), Fin(6), Fin(MaxFinite), Inf}

Ns == (-MaxN..MaxN) \cup {HugeN}

Confidences == {None, Some(900), Some(950), Some(990)}

IntervalArgs(mean, stdev, n, confidence) ==
    [state |-> "called", mean |-> mean, stdev |-> stdev, n |-> n,
     confidence |-> confidence, lower |-> Zero, upper |-> Zero, exc |-> "none"]

IntervalIdle == [IntervalArgs(Zero, Zero, 0, None) EXCEPT !.state = "idle"]

InitStats ==
    /\ values \in SeqsUpTo(Samples, MaxLen)
    /\ stat = NotCalled
    /\ interval = IntervalIdle

InitInterval ==
    /\ values = <<>>
    /\ stat = StatIdle
    /\ interval \in {IntervalArgs(mean, stdev, n, confidence) :
                        mean \in Means, stdev \in Stdevs, n \in Ns,
                        confidence \in Confidences}

\* the caller's composition: mean, stdev = calculate_statistics(values),
\* then calculate_confidence_interval(mean, stdev, len(values), confidence)
IntervalOfStatistics ==
    /\ stat.state = "returned"
    /\ interval.state = "idle"
    /\ \E confidence \in Confidences :
          interval' = calculate_confidence_interval(
                          IntervalArgs(stat.mean, stat.stdev, Len(values), confidence))
    /\ UNCHANGED <<values, stat, platformVars, schemaVars, hashVars, aliasVars>>

CalculateConfidenceInterval ==
    /\ interval.state = "called"
    /\ interval' = calculate_confidence_interval(interval)
    /\ UNCHANGED <<values, stat, platformVars, schemaVars, hashVars, aliasVars>>

----------------------------------------------------------------------------
(* compute_hash and compute_array_hash.  A Python int is a sign and a      *)
(* magnitude of any size: the magnitude is held as its 16-bit limbs, least *)
(* significant first, without leading zero limbs.  A uint32 is two limbs.  *)

Limb == 65536

Byte == 256

Long(neg, limbs) == [neg |-> neg, limbs |-> limbs]

LimbAt(limbs, i) == IF i <= Len(limbs) THEN limbs[i] ELSE 0

\* hashlib.sha256(data).hexdigest(): a function of the bytes, kept
\* uninterpreted
compute_hash(data) == [sha256 |-> data]

HashReturned(h) == [state |-> "returned", hash |-> h, exc |-> "none"]

HashRaised(e) == [state |-> "raised", hash |-> compute_hash(<<>>), exc |-> e]

\* the conversion of a Python int to the C unsigned 32-bit element of the
\* array.  numpy 2 refuses an int outside [0, 2^32 - 1] with OverflowError.
\* numpy 1 converts through the C long (64 bits), raising OverflowError
\* past it, and keeps the low 32 bits, in two's complement for a negative.
AsUInt32(version, x) ==
    LET lo == LimbAt(x.limbs, 1)
        hi == LimbAt(x.limbs, 2)
        inRange == ~x.neg /\ Len(x.limbs) <= 2
        fitsLong == IF x.neg
                    THEN \/ Len(x.limbs) <= 3
                         \/ Len(x.limbs) = 4 /\ x.limbs[4] < Limb \div 2
                         \/ x.limbs = <<0, 0, 0, Limb \div 2>>
                    ELSE Len(x.limbs) <= 4
    IN  CASE inRange -> [exc |-> "none", lo |-> lo, hi |-> hi]
          [] version = 1 /\ fitsLong /\ ~x.neg -> [exc |-> "none", lo |-> lo, hi |-> hi]
          [] version = 1 /\ fitsLong /\ x.neg ->
                [exc |-> "none",
                 lo |-> (Limb - lo) % Limb,
                 hi |-> (2 * Limb - 1 - hi + (IF lo = 0 THEN 1 ELSE 0)) % Limb]
          [] OTHER -> [exc |-> "OverflowError", lo |-> 0, hi |-> 0]

\* np.array(items, dtype="<u4")
np_array(version, items) ==
    LET words == [i \in 1..Len(items) |-> AsUInt32(version, items[i])]
    IN  IF \E i \in 1..Len(items) : words[i].exc # "none"
        THEN [exc |-> "OverflowError", words |-> <<>>]
        ELSE [exc |-> "none", words |-> words]

\* ndarray.tobytes() of a "<u4" array written in big-endian order
RECURSIVE Mutant_tobytes_big_endian(_)
Mutant_tobytes_big_endian(words) ==
    IF words = <<>> THEN <<>>
    ELSE LET w == Head(words)
         IN  <<w.hi \div Byte, w.hi % Byte, w.lo \div Byte, w.lo % Byte>>
                 \o Mutant_tobytes_big_endian(Tail(words))

\* ndarray.tobytes() of a "<u4" array: each element's four bytes, least
\* significant first, the elements in order
RECURSIVE tobytes(_)
tobytes(words) ==
    IF words = <<>> THEN <<>>
    ELSE LET w == Head(words)
         IN  <<w.lo % Byte, w.lo \div Byte, w.hi % Byte, w.hi \div Byte>>
                 \o tobytes(Tail(words))

\* the argument is a plain sequence of numbers or an object with tolist()
PlainList(items) == [kind |-> "list", items |-> items, tolist |-> <<>>]

\* an object that is not itself a sequence, whose tolist() returns one
ArrayLike(items) == [kind |-> "arraylike", items |-> <<>>, tolist |-> items]

hasattr_tolist(a) == a.kind = "arraylike"

compute_array_hash(version, a) ==
    LET data == IF hasattr_tolist(a)
                THEN np_array(version, a.tolist)
                ELSE np_array(version, a.items)
    IN  IF data.exc # "none" THEN HashRaised(data.exc)
        ELSE HashReturned(compute_hash(tobytes(data.words)))

\* the arrays a caller may pass: up to MaxArrayLen elements, inside and
\* outside [0, 2^32 - 1]
MaxArrayLen == 2

InRangeElements ==
    {Long(FALSE, l) : l \in {<<>>, <<1>>, <<2>>, <<258>>, <<0, 1>>, <<772, 258>>,
                             <<Limb - 1, Limb - 1>>}}

OutOfRangeElements ==
    {Long(FALSE, <<0, 0, 1>>), Long(FALSE, <<1, 0, 1>>),
     Long(FALSE, <<0, 0, 0, 0, 1>>),
     Long(TRUE, <<1>>), Long(TRUE, <<0, 0, 1>>), Long(TRUE, <<0, 0, 0, 0, 1>>)}

Elements == InRangeElements \cup OutOfRangeElements

NumpyVersions == {1, 2}

HashNotCalled == [state |-> "called", hash |-> compute_hash(<<>>), exc |-> "none"]

HashIdle ==
    /\ numpy = 0
    /\ arr = PlainList(<<>>)
    /\ digest = [HashNotCalled EXCEPT !.state = "idle"]

InitHash ==
    /\ numpy \in NumpyVersions
    /\ \E items \in SeqsUpTo(Elements, MaxArrayLen) :
           arr \in {PlainList(items), ArrayLike(items)}
    /\ digest = HashNotCalled

ComputeArrayHash ==
    /\ digest.state = "called"
    /\ digest' = compute_array_hash(numpy, arr)
    /\ UNCHANGED <<numpy, arr, platformVars, schemaVars, statsVars, aliasVars>>

----------------------------------------------------------------------------
(* to_dict and the objects it hands out.  A dict is an object: a field or  *)
(* a mapping entry holds a reference to it, and an assignment through any  *)
(* reference is seen through all of them.                                  *)

PyRef(id) == [t |-> "ref", id |-> id]

\* the value a mapping stands for: every reference replaced by the dict it
\* points to
RECURSIVE Deref(_, _)
Deref(v, h) ==
    CASE v.t = "ref" -> PyDict(h[v.id])
      [] v.t = "dict" -> PyDict([k \in DOMAIN v.d |-> Deref(v.d[k], h)])
      [] OTHER -> v

\* the BenchmarkResult with its metadata dict in place of the reference
ResultValue(r, h) == [r EXCEPT !.metadata = h[r.metadata]]

\* BenchmarkResult.to_dict: a new dict, new dicts from the nested to_dict
\* calls, and under "metadata" the metadata dict of the result itself
BenchmarkResult_to_dict_object(r, h) ==
    LET fresh == BenchmarkResult_to_dict(ResultValue(r, h))
    IN  IF h[r.metadata] # EmptyDict
        THEN PyDict(SetItem(fresh.d, "metadata", PyRef(r.metadata)))
        ELSE fresh

\* BenchmarkReport.to_dict of the report holding the result as benchmark "a"
BenchmarkReport_to_dict_object(r, h) ==
    PyDict(SetItem(SetItem(EmptyDict,
        "metadata", Metadata_to_dict(SomeMetadata)),
        "benchmarks", PyDict(SetItem(EmptyDict, "a",
                                     BenchmarkResult_to_dict_object(r, h)))))

to_dict_object(kind, r, h) ==
    IF kind = "report" THEN BenchmarkReport_to_dict_object(r, h)
    ELSE BenchmarkResult_to_dict_object(r, h)

\* the mapping of the result inside what to_dict returned
ResultMapping(kind, obj) == IF kind = "report" THEN obj.d["benchmarks"].d["a"] ELSE obj

\* obj after the caller's  <mapping of the result>[k] = v
SetInResultMapping(kind, obj, k, v) ==
    IF kind = "report"
    THEN PyDict(SetItem(obj.d, "benchmarks",
             PyDict(SetItem(EmptyDict, "a", PyDict(SetItem(obj.d["benchmarks"].d["a"].d, k, v))))))
    ELSE PyDict(SetItem(obj.d, k, v))

\* how many times a caller calls to_dict
MaxCalls == 2

MetadataAddress == 1

AliasResults ==
    [latency : {None, Some(PlainMetric)}, memory : {None}, throughput : {None},
     iterations : {0, 100}, test_vectors : {None},
     metadata : {EmptyDict,
                 SetItem(EmptyDict, "custom", PyStr(<<"v">>)),
                 SetItem(EmptyDict, "sizes", PyList(<<PyInt(1), PyInt(2)>>))}]

AliasIdle ==
    /\ owner = "idle"
    /\ subject = [DefaultResult EXCEPT !.metadata = MetadataAddress]
    /\ heap = [a \in {MetadataAddress} |-> EmptyDict]
    /\ given = DefaultResult
    /\ returned = <<>>

InitAlias ==
    /\ owner \in {"result", "report"}
    /\ given \in AliasResults
    /\ subject = [given EXCEPT !.metadata = MetadataAddress]
    /\ heap = [a \in {MetadataAddress} |-> given.metadata]
    /\ returned = <<>>

\* d = x.to_dict()
CallToDict ==
    /\ owner # "idle"
    /\ Len(returned) < MaxCalls
    /\ returned' = Append(returned,
           [obj |-> to_dict_object(owner, subject, heap),
            value |-> Deref(to_dict_object(owner, subject, heap), heap)])
    /\ UNCHANGED <<owner, subject, heap, given, platformVars, schemaVars, statsVars, hashVars>>

\* the caller's  d["note"] = 1  on the result's mapping it was handed
CallerSetsKey ==
    /\ owner # "idle"
    /\ \E i \in 1..Len(returned) :
          returned' = [returned EXCEPT ![i].obj =
                          SetInResultMapping(owner, @, "note", PyInt(1))]
    /\ UNCHANGED <<owner, subject, heap, given, platformVars, schemaVars, statsVars, hashVars>>

\* the caller's  d["metadata"]["note"] = 1  on a mapping it was handed
CallerSetsMetadataKey ==
    /\ owner # "idle"
    /\ \E i \in 1..Len(returned) :
          LET m == ResultMapping(owner, returned[i].obj)
          IN  /\ "metadata" \in DOMAIN m.d
              /\ m.d["metadata"].t = "ref"
              /\ heap' = [heap EXCEPT ![m.d["metadata"].id] = SetItem(@, "note", PyInt(1))]
    /\ UNCHANGED <<owner, subject, given, returned, platformVars, schemaVars, statsVars, hashVars>>

----------------------------------------------------------------------------
(* The library: one call is made, of platform detection, of the schema or  *)
(* of the statistics; the other parts stay idle.                           *)

PlatformIdle ==
    /\ op = "none"
    /\ system = <<>>
    /\ pc = "idle"
    /\ inflight = None
    /\ invoked = <<>>
    /\ loc = NoLocals
    /\ status = "idle"

SchemaIdle ==
    /\ entity = [kind |-> "none"]
    /\ built = None
    /\ mapping = None
    /\ text = None
    /\ parsed = None

StatsIdle ==
    /\ values = <<>>
    /\ stat = StatIdle
    /\ interval = IntervalIdle

Init ==
    \/ InitPlatform /\ SchemaIdle /\ StatsIdle /\ HashIdle /\ AliasIdle
    \/ PlatformIdle /\ InitSchema /\ StatsIdle /\ HashIdle /\ AliasIdle
    \/ PlatformIdle /\ SchemaIdle /\ InitStats /\ HashIdle /\ AliasIdle
    \/ PlatformIdle /\ SchemaIdle /\ InitInterval /\ HashIdle /\ AliasIdle
    \/ PlatformIdle /\ SchemaIdle /\ StatsIdle /\ InitHash /\ AliasIdle
    \/ PlatformIdle /\ SchemaIdle /\ StatsIdle /\ HashIdle /\ InitAlias

Next ==
    \/ Spawn
    \/ GitFinish
    \/ Timestamp
    \/ PlatformInfoStart
    \/ get_cpu_vendor
    \/ SysctlFinish
    \/ get_gpu_vendor
    \/ ProfilerFinish
    \/ NvidiaFinish
    \/ RocmFinish
    \/ ConstructPlatform
    \/ PlatformNew
    \/ PlatformToDict
    \/ MetricValueNew
    \/ MetricSetAttr
    \/ MetricToDict
    \/ ReportToDict
    \/ ReportToJson
    \/ ParseJson
    \/ CalculateStatistics
    \/ CalculateConfidenceInterval
    \/ IntervalOfStatistics
    \/ ComputeArrayHash
    \/ CallToDict
    \/ CallerSetsKey
    \/ CallerSetsMetadataKey

Spec == Init /\ [][Next]_vars

----------------------------------------------------------------------------
(* Properties: platform detection and the commit lookup                    *)

\* no tool of this run was found but not executable
EveryToolRunsOrIsMissing ==
    \A i \in 1..Len(invoked) : invoked[i].child.kind # "noexec"

\* C1: get_platform_info() never raises: whatever the OS name, the cpuinfo
\* file, the tools (present, missing, failing, timing out) and os.cpu_count
\* give, the call ends by returning a Platform.
C1_GetPlatformInfoNeverRaises ==
    (op = "get_platform_info" /\ pc = "done" /\ EveryToolRunsOrIsMissing)
        => status = "returned"

\* C2: Metadata.create(implementation, version) always returns a Metadata
\* with the given implementation and version, a non-empty commit_sha and
\* timestamp and a platform; no lookup failure surfaces as an error.
C2_CreateReturnsMetadata ==
    (op = "Metadata.create" /\ pc = "done" /\ EveryToolRunsOrIsMissing)
        => /\ status = "returned"
           /\ LET m == TheValue(loc.result)
              IN  /\ m.implementation = loc.implementation
                  /\ m.version = loc.version
                  /\ m.commit_sha # <<>>
                  /\ m.timestamp # <<>>
                  /\ DOMAIN m.platform = PlatformFields

\* C4: get_git_commit_sha() returns, for every outcome of the git command,
\* the first 12 characters of the hash or "unknown"; "unknown" whenever git
\* is missing, fails or prints no commit; it never raises.
C4_ShaIsTwelveCharsOrUnknown ==
    (op = "get_git_commit_sha" /\ pc = "done")
        => /\ status = "returned"
           /\ LET sha == TheValue(loc.result)
                  git == invoked[1].child
              IN  /\ Len(sha) = 12 \/ sha = Unknown
                  /\ (\/ git.kind = "missing"
                      \/ git.kind = "exit" /\ git.returncode # 0
                      \/ git.kind = "exit" /\ Strip(git.stdout) = <<>>)
                         => sha = Unknown
                  /\ (git.kind = "exit" /\ git.returncode = 0
                        /\ Len(Strip(git.stdout)) >= 12)
                         => sha = Prefix(Strip(git.stdout), 12)

\* C5: every external process invocation of get_platform_info() and
\* Metadata.create() has a timeout, so the call is never left waiting for a
\* child that does not exit.
C5_EveryInvocationHasTimeout ==
    op \in {"get_platform_info", "Metadata.create"}
        => /\ \A i \in 1..Len(invoked) : invoked[i].timeout # NoTimeout
           /\ inflight # None => Completes(TheValue(inflight))

----------------------------------------------------------------------------
(* Properties: the schema                                                  *)

HasKeyword(kwargs, k) == k \in DOMAIN kwargs /\ kwargs[k] # None

\* C3: Platform has an optional gpu_vendor next to the optional cpu_vendor:
\* constructing it with either succeeds, and to_dict holds os, arch and
\* cpu_count always and cpu_vendor (gpu_vendor) exactly when present, with
\* the field's value.
C3_PlatformCarriesGpuVendor ==
    (entity.kind = "platform" /\ built # None)
        => /\ TheValue(built).exc = "none"
           /\ mapping # None =>
                LET d == TheValue(mapping).d
                    kw == entity.kwargs
                IN  /\ {"os", "arch", "cpu_count"} \subseteq DOMAIN d
                    /\ \A k \in {"cpu_vendor", "gpu_vendor"} :
                          /\ k \in DOMAIN d <=> HasKeyword(kw, k)
                          /\ k \in DOMAIN d => d[k] = PyStr(TheValue(kw[k]))

\* a value json writes and reads back unchanged: None, a bool, an int, a
\* float other than NaN, a string, a list or a string-keyed dict of such
RECURSIVE JsonNative(_)
JsonNative(v) ==
    CASE v.t \in {"none", "bool", "int", "str"} -> TRUE
      [] v.t = "float" -> v.f.c # "nan"
      [] v.t = "list" -> \A i \in 1..Len(v.items) : JsonNative(v.items[i])
      [] v.t = "dict" -> \A k \in DOMAIN v.d : JsonNative(v.d[k])
      [] OTHER -> FALSE

MetricNative(m) ==
    m = None \/ /\ TheValue(m).value.c # "nan"
                /\ \A b \in TheValue(m).lower_value \cup TheValue(m).upper_value :
                      b.c # "nan"

\* the report holds no NaN and its free-form metadata only JSON-native values
ReportNative(report) ==
    \A name \in DOMAIN report.benchmarks :
        LET r == report.benchmarks[name]
        IN  /\ MetricNative(r.latency)
            /\ MetricNative(r.memory)
            /\ MetricNative(r.throughput)
            /\ JsonNative(PyDict(r.metadata))

\* to_json returned a string, and parsing it gave a mapping equal to to_dict
RoundTrips ==
    /\ text # None => TheValue(text).exc = "none"
    /\ (parsed # None /\ mapping # None)
          => PyEq(TheValue(parsed), TheValue(mapping))

\* C6 as stated: for any constructed report (any benchmark names, any subset
\* of fields, any free-form metadata mapping with string keys) parsing the
\* string returned by to_json yields a mapping equal to to_dict().
C6_RoundTripOfAnyReport == entity.kind = "report" => RoundTrips

\* C6 as amended: the round trip holds for every report that holds no NaN
\* and whose free-form metadata values are JSON-native.
C6_RoundTripOfNativeReport ==
    (entity.kind = "report" /\ ReportNative(entity.report)) => RoundTrips

C6_Witness ==
    /\ entity.kind = "report"
    /\ ReportNative(entity.report)
    /\ parsed # None
    /\ mapping # None
    /\ DOMAIN entity.report.benchmarks = {"a", "b"}
    /\ entity.report.benchmarks["a"].latency # None
    /\ "sizes" \in DOMAIN entity.report.benchmarks["a"].metadata

\* the keys of a MetricValue's mapping: value and unit always, each bound
\* exactly when set, nothing null
MetricOmission(m, d) ==
    /\ {"value", "unit"} \subseteq DOMAIN d
    /\ DOMAIN d \subseteq {"value", "unit", "lower_value", "upper_value"}
    /\ "lower_value" \in DOMAIN d <=> m.lower_value # None
    /\ "upper_value" \in DOMAIN d <=> m.upper_value # None
    /\ d["value"] = PyFloat(m.value)
    /\ d["unit"] = PyStr(m.unit)
    /\ "lower_value" \in DOMAIN d => d["lower_value"] = PyFloat(TheValue(m.lower_value))
    /\ "upper_value" \in DOMAIN d => d["upper_value"] = PyFloat(TheValue(m.upper_value))

\* the keys of a BenchmarkResult's mapping
ResultOmission(r, d) ==
    /\ DOMAIN d \subseteq {"latency", "memory", "throughput", "iterations",
                           "test_vectors", "metadata"}
    /\ \A k \in DOMAIN d : d[k].t # "none"
    /\ "latency" \in DOMAIN d <=> r.latency # None
    /\ "memory" \in DOMAIN d <=> r.memory # None
    /\ "throughput" \in DOMAIN d <=> r.throughput # None
    /\ "test_vectors" \in DOMAIN d <=> r.test_vectors # None
    /\ "metadata" \in DOMAIN d <=> DOMAIN r.metadata # {}
    /\ "iterations" \in DOMAIN d => r.iterations # 0 /\ d["iterations"] = PyInt(r.iterations)
    /\ r.iterations > 0 => "iterations" \in DOMAIN d
    /\ "latency" \in DOMAIN d => MetricOmission(TheValue(r.latency), d["latency"].d)
    /\ "memory" \in DOMAIN d => MetricOmission(TheValue(r.memory), d["memory"].d)
    /\ "throughput" \in DOMAIN d
          => MetricOmission(TheValue(r.throughput), d["throughput"].d)
    /\ r = [DefaultResult EXCEPT !.latency = r.latency] /\ r.latency # None
          => DOMAIN d = {"latency"}
    /\ r = DefaultResult => DOMAIN d = {}

\* C7: in the canonical mapping of a MetricValue or a BenchmarkResult an
\* optional field's key is present exactly when the field is, never as null:
\* value and unit always, each bound only when set; latency, memory,
\* throughput, test_vectors only when set, iterations only when not 0,
\* metadata only when non-empty; only latency set gives exactly {"latency"},
\* a default result the empty mapping.
C7_OmissionRule ==
    (entity.kind = "report" /\ mapping # None)
        => \A name \in DOMAIN entity.report.benchmarks :
              ResultOmission(entity.report.benchmarks[name],
                             TheValue(mapping).d["benchmarks"].d[name].d)

C7_Witness ==
    /\ entity.kind = "report"
    /\ mapping # None
    /\ DOMAIN entity.report.benchmarks = {"a", "b"}
    /\ LET r == entity.report.benchmarks["a"]
       IN  /\ r = [DefaultResult EXCEPT !.latency = r.latency]
           /\ r.latency # None
           /\ TheValue(r.latency).lower_value # None
           /\ TheValue(r.latency).upper_value = None
    /\ DOMAIN TheValue(mapping).d["benchmarks"].d["a"].d = {"latency"}
    /\ DOMAIN TheValue(mapping).d["benchmarks"].d["b"].d = {}

----------------------------------------------------------------------------
(* Properties: calculate_statistics                                        *)

\* x[1] + ... + x[n] for a function x on 1..n, added in order
RECURSIVE SumTo(_, _)
SumTo(x, n) == IF n = 0 THEN Zero ELSE FAdd(SumTo(x, n - 1), x[n])

ArithmeticMean(vals) == FDivInt(SumTo(vals, Len(vals)), Len(vals))

\* sum((x - mean)^2) / (n - 1)
UnbiasedVariance(vals, mean) ==
    FDivInt(SumTo([i \in 1..Len(vals) |-> FSquare(FSub(vals[i], mean))], Len(vals)),
            Len(vals) - 1)

\* sum((x - mean)^2) / n
PopulationVariance(vals, mean) ==
    FDivInt(SumTo([i \in 1..Len(vals) |-> FSquare(FSub(vals[i], mean))], Len(vals)),
            Len(vals))

AllEqual(vals) == \A i, j \in 1..Len(vals) : vals[i] = vals[j]

C10_FailsIffEmpty ==
    stat.state \in {"returned", "raised"}
        => /\ (stat.state = "raised" /\ stat.exc = "ValueError") <=> values = <<>>
           /\ values # <<>> => stat.state = "returned"

\* C10 as amended: ValueError, and no result, exactly when the sequence is
\* empty; a non-empty sequence yields a result unless the square of a
\* deviation overflows, which raises OverflowError.
C10_FailsIffEmptyOrOverflow ==
    stat.state \in {"returned", "raised"}
        => /\ (stat.state = "raised" /\ stat.exc = "ValueError") <=> values = <<>>
           /\ (values # <<>> /\ stat.state = "raised")
                 => /\ stat.exc = "OverflowError"
                    /\ Len(values) >= 2
                    /\ \E i \in 1..Len(values) :
                          FSquare(FSub(values[i], ArithmeticMean(values))) = Overflow
           /\ (\A i \in 1..Len(values) :
                  FSquare(FSub(values[i], ArithmeticMean(values))) # Overflow)
                 => (values # <<>> => stat.state = "returned")

C10_Witness ==
    /\ values = <<>>
    /\ stat.state = "raised"
    /\ stat.exc = "ValueError"

----------------------------------------------------------------------------
(* Properties: calculate_confidence_interval                               *)

IntervalDone == interval.state \in {"returned", "raised"}

\* float(n) is past the largest float
TooLargeForFloat(n) == 2 * n * One >= 2 * MaxFinite + Pow2(FloatMaxExp)

\* C11 as stated: calculate_confidence_interval raises ValueError for every
\* n <= 0, whatever mean, stdev and confidence are, and never fails for
\* n >= 1.
C11_FailsIffNonPositive ==
    IntervalDone
        => /\ interval.n <= 0 => interval.exc = "ValueError"
           /\ interval.n >= 1 => interval.state = "returned"

\* C11 as amended: ValueError exactly for n <= 0; for n >= 1 the call
\* returns unless n is too large to convert to a float, and then raises
\* OverflowError; no division by zero is ever reached.
C11_FailsIffNonPositiveOrTooLarge ==
    IntervalDone
        => /\ interval.exc = "ValueError" <=> interval.n <= 0
           /\ interval.exc = "OverflowError"
                 <=> (interval.n >= 1 /\ TooLargeForFloat(interval.n))
           /\ interval.state = "returned"
                 <=> (interval.n >= 1 /\ ~TooLargeForFloat(interval.n))
           /\ interval.exc # "ZeroDivisionError"

C11_Witness ==
    /\ interval.state = "raised"
    /\ interval.exc = "ValueError"
    /\ interval.n = 0
    /\ interval.stdev = Zero
    /\ interval.confidence = Some(990)

\* the z-score the specification gives a confidence level
ExpectedZ(confidence) ==
    IF confidence = Some(990) THEN Literal(2576, 1000) ELSE Literal(196, 100)

----------------------------------------------------------------------------
(* Properties: compute_array_hash                                          *)

\* the element sequence the argument stands for
ElementsOf(a) == IF a.kind = "arraylike" THEN a.tolist ELSE a.items

InRange(x) == ~x.neg /\ Len(x.limbs) <= 2

AllInRange(items) == \A i \in 1..Len(items) : InRange(items[i])

RECURSIVE Power(_, _)
Power(b, e) == IF e = 0 THEN 1 ELSE b * Power(b, e - 1)

\* byte i (0 the least significant) of a non-negative int below 2^32
ByteOf(x, i) == (LimbAt(x.limbs, (i \div 2) + 1) \div Power(Byte, i % 2)) % Byte

\* the concatenation of the elements' 4-byte little-endian encodings
LittleEndianWords(items) ==
    [p \in 1..(4 * Len(items)) |-> ByteOf(items[((p - 1) \div 4) + 1], (p - 1) % 4)]

InRangeArrays ==
    {a \in {PlainList(items) : items \in SeqsUpTo(InRangeElements, MaxArrayLen)}
          \cup {ArrayLike(items) : items \in SeqsUpTo(InRangeElements, MaxArrayLen)} :
        TRUE}

\* C14: for every sequence of integers in [0, 2^32 - 1] compute_array_hash
\* is compute_hash of the elements' 4-byte little-endian encodings in
\* order; an object with tolist() hashes as the list tolist() returns; and
\* two sequences are packed to the same bytes only if they are equal.
C14_HashOfLittleEndianWords ==
    (digest.state # "idle" /\ digest.state # "called" /\ AllInRange(ElementsOf(arr)))
        => /\ digest.state = "returned"
           /\ digest.hash = compute_hash(LittleEndianWords(ElementsOf(arr)))
           /\ digest = compute_array_hash(numpy, PlainList(ElementsOf(arr)))
           /\ \A other \in InRangeArrays :
                 compute_array_hash(numpy, other).hash = digest.hash
                     <=> ElementsOf(other) = ElementsOf(arr)

C14_Witness ==
    /\ digest.state = "returned"
    /\ arr = ArrayLike(<<Long(FALSE, <<772, 258>>), Long(FALSE, <<1>>)>>)
    /\ digest.hash = compute_hash(<<4, 3, 2, 1, 1, 0, 0, 0>>)

\* x modulo 2^32, for an int of at most 64 bits
Wrapped(x) ==
    LET lo == LimbAt(x.limbs, 1)
        hi == LimbAt(x.limbs, 2)
        low == IF lo = 0 /\ hi = 0 THEN <<>> ELSE IF hi = 0 THEN <<lo>> ELSE <<lo, hi>>
        nlo == (Limb - lo) % Limb
        nhi == IF lo = 0 THEN (Limb - hi) % Limb ELSE Limb - 1 - hi
        negated == IF nlo = 0 /\ nhi = 0 THEN <<>>
                   ELSE IF nhi = 0 THEN <<nlo>> ELSE <<nlo, nhi>>
    IN  Long(FALSE, IF x.neg THEN negated ELSE low)

\* C15: an out-of-range or negative element is hashed as its value modulo
\* 2^32: compute_array_hash returns a hash, never an error, and sequences
\* that are elementwise congruent modulo 2^32 get the same hash.
C15_OutOfRangeWraps ==
    digest.state \in {"returned", "raised"}
        => /\ digest.state = "returned"
           /\ digest.hash = compute_hash(LittleEndianWords(
                  [i \in 1..Len(ElementsOf(arr)) |-> Wrapped(ElementsOf(arr)[i])]))

----------------------------------------------------------------------------
(* Properties: MetricValue                                                 *)

\* a <= b on floats; every comparison with NaN is false
FLessEq(a, b) ==
    CASE a.c = "nan" \/ b.c = "nan" -> FALSE
      [] a.c = "inf" -> a.k < 0 \/ (b.c = "inf" /\ b.k > 0)
      [] b.c = "inf" -> b.k > 0
      [] OTHER -> a.k <= b.k

BoundsEnclose(m) ==
    /\ m.lower_value # None => FLessEq(TheValue(m.lower_value), m.value)
    /\ m.upper_value # None => FLessEq(m.value, TheValue(m.upper_value))

\* C16: every MetricValue that exists has lower_value <= value when
\* lower_value is present and value <= upper_value when upper_value is
\* present, at construction and after any later operation on it.
C16_BoundsEncloseValue ==
    (entity.kind = "metric" /\ built # None)
        => /\ TheValue(built).exc = "none"
           /\ BoundsEnclose(TheValue(built).val)

----------------------------------------------------------------------------
(* Properties: the vendor lookups                                          *)

\* the child gave no output to take a name from
ChildFailed(child) ==
    \/ child.kind # "exit"
    \/ child.returncode # 0
    \/ Strip(child.stdout) = <<>>

\* C17: any detection failure (unsupported OS, unreadable /proc/cpuinfo, no
\* matching line, tool missing, not executable, non-zero exit, empty
\* output, timeout) makes get_cpu_vendor / get_gpu_vendor return None:
\* never an exception, never an empty string.
C17_DetectionFailureIsAbsent ==
    (op \in {"get_cpu_vendor", "get_gpu_vendor"} /\ pc = "done")
        => /\ status = "returned"
           /\ TheValue(loc.result) # Some(<<>>)
           /\ (invoked # <<>> /\ \A i \in 1..Len(invoked) : ChildFailed(invoked[i].child))
                 => TheValue(loc.result) = None
           /\ system \notin {Linux, Darwin, Windows} => TheValue(loc.result) = None

\* C18: the Platform returned by get_platform_info() has cpu_count >= 1:
\* the core count the OS reports, or 1 when the OS reports none.
C18_CpuCountAtLeastOne ==
    (op = "get_platform_info" /\ pc = "done")
        => /\ status = "returned"
           /\ LET platform == TheValue(loc.result)
              IN  /\ platform.cpu_count >= 1
                  /\ platform.cpu_count =
                        IF loc.reported = None THEN 1 ELSE TheValue(loc.reported)

\* the name nvidia-smi printed: its first output line, stripped
NvidiaName(child) ==
    IF child.kind = "exit" /\ child.returncode = 0
    THEN Strip(BeforeNewline(child.stdout))
    ELSE <<>>

\* C19: on Linux get_gpu_vendor runs nvidia-smi first and rocm-smi only
\* after nvidia-smi yielded no name (missing, timed out, non-zero exit,
\* empty first line); a non-empty first line of a successful nvidia-smi is
\* the result and rocm-smi is never run; on an OS other than Linux and
\* macOS no program is run and the result is absent.
C19_NvidiaBeforeRocm ==
    op = "get_gpu_vendor"
        => /\ \A i \in 1..Len(invoked) :
                 /\ invoked[i].cmd = "nvidia-smi" => (i = 1 /\ system = Linux)
                 /\ invoked[i].cmd = "rocm-smi"
                       => /\ i = 2
                          /\ system = Linux
                          /\ invoked[1].cmd = "nvidia-smi"
                          /\ invoked[1].child.kind \in {"missing", "hang", "exit"}
                          /\ NvidiaName(invoked[1].child) = <<>>
           /\ (system = Linux /\ pc \notin {"gpu", "nvidia"})
                 => invoked # <<>> /\ invoked[1].cmd = "nvidia-smi"
           /\ (system = Linux /\ pc = "done" /\ NvidiaName(invoked[1].child) # <<>>)
                 => /\ Len(invoked) = 1
                    /\ status = "returned"
                    /\ TheValue(loc.result) = Some(NvidiaName(invoked[1].child))
           /\ (system = Linux /\ pc = "done"
                  /\ invoked[1].child.kind \in {"missing", "hang", "exit"}
                  /\ NvidiaName(invoked[1].child) = <<>>)
                 => Len(invoked) = 2 /\ invoked[2].cmd = "rocm-smi"
           /\ system \notin {Linux, Darwin}
                 => /\ invoked = <<>> /\ inflight = None
                    /\ pc = "done" => (status = "returned" /\ TheValue(loc.result) = None)

C19_Witness ==
    /\ op = "get_gpu_vendor"
    /\ system = Linux
    /\ pc = "done"
    /\ Len(invoked) = 1
    /\ invoked[1].child.stdout
         = <<"R", "T", "X", " ", "4", "0", "9", "0", "\n", "R", "T", "X", " ", "3", "0", "9", "0", "\n">>
    /\ loc.result = Some(Some(<<"R", "T", "X", " ", "4", "0", "9", "0">>))

----------------------------------------------------------------------------
(* Properties: to_dict and its result                                      *)

\* C20: to_dict leaves every field of the entity unchanged, and changing
\* the returned mapping afterwards, its nested "metadata" mapping
\* included, changes neither the entity nor what a later to_dict returns.
C20_ToDictResultIsIndependent ==
    owner # "idle"
        => LET h0 == [a \in {MetadataAddress} |-> given.metadata]
               r0 == [given EXCEPT !.metadata = MetadataAddress]
           IN  /\ ResultValue(subject, heap) = given
               /\ \A i \in 1..Len(returned) :
                     returned[i].value = Deref(to_dict_object(owner, r0, h0), h0)

----------------------------------------------------------------------------
(* Properties: calculate_statistics followed by                            *)
(* calculate_confidence_interval                                           *)

\* both calls of the composition were made on a non-empty sample
Composed == values # <<>> /\ stat.state = "returned" /\ IntervalDone

IsFinite(a) == a.c = "fin"

\* C21 as stated: for every non-empty sample, with (mean, stdev) from
\* calculate_statistics and (lower, upper) from
\* calculate_confidence_interval(mean, stdev, n, c), no error is raised,
\* lower <= mean <= upper, mean - lower = upper - mean, and lower = upper
\* exactly when stdev = 0.
C21_IntervalAroundMean ==
    values # <<>>
        => /\ stat.state # "raised"
           /\ Composed
                 => /\ interval.state = "returned"
                    /\ FLessEq(interval.lower, stat.mean)
                    /\ FLessEq(stat.mean, interval.upper)
                    /\ FSub(stat.mean, interval.lower) = FSub(interval.upper, stat.mean)
                    /\ interval.lower = interval.upper <=> stat.stdev = Zero

\* C21 as amended: when calculate_statistics returns a finite mean, the
\* interval call raises no error, lower <= mean <= upper, and stdev = 0
\* gives lower = upper = mean.
C21_IntervalAroundFiniteMean ==
    (Composed /\ IsFinite(stat.mean))
        => /\ interval.state = "returned"
           /\ interval.mean = stat.mean /\ interval.n = Len(values)
           /\ FLessEq(interval.lower, stat.mean)
           /\ FLessEq(stat.mean, interval.upper)
           /\ stat.stdev = Zero
                 => (interval.lower = stat.mean /\ interval.upper = stat.mean)
           /\ BoundsEnclose([value |-> stat.mean, lower_value |-> Some(interval.lower),
                             upper_value |-> Some(interval.upper)])

C21_Witness ==
    /\ Composed
    /\ Len(values) = 3
    /\ IsFinite(stat.mean)
    /\ IsFinite(stat.stdev) /\ stat.stdev # Zero
    /\ interval.confidence = Some(990)
    /\ IsFinite(interval.lower) /\ IsFinite(interval.upper)
    /\ interval.lower # interval.upper

=============================================================================
